---- MODULE Spec2Model ----
(***************************************************************************)
(* OAuth credential cache and refresh helper                               *)
(* (litellm/llms/gemini_oauth/authenticator.py and                         *)
(*  litellm/llms/qwen_oauth/authenticator.py).                             *)
(*                                                                         *)
(* Several callers (threads or processes) share one credential file.  Each *)
(* caller runs get_access_token or get_api_base; get_access_token is split *)
(* at the points where the file system or the network is touched, so that  *)
(* the callers interleave there.                                           *)
(***************************************************************************)
EXTENDS Integers, Sequences, FiniteSets, TLC

(***************************************************************************)
(* Numbers.  Epoch values in milliseconds exceed 32 bits, so a number n is *)
(* the pair <<n \div Base, n % Base>>.                                      *)
(***************************************************************************)
Base == 1000 * 1000

Big(hi, lo) == <<hi, lo>>

BigLt(a, b) == a[1] < b[1] \/ (a[1] = b[1] /\ a[2] < b[2])

BigGt(a, b) == BigLt(b, a)

BigAdd(a, b) ==
    LET lo == a[2] + b[2]
    IN  <<a[1] + b[1] + (lo \div Base), lo % Base>>

BigMul1000(a) ==
    LET lo == a[2] * 1000
    IN  <<a[1] * 1000 + (lo \div Base), lo % Base>>

(* 10_000_000_000, the seconds/milliseconds threshold of _is_expired *)
MsThreshold == Big(10000, 0)

(* the 60 second early-refresh margin of _is_expired, in milliseconds *)
MarginMs == Big(0, 60000)

(***************************************************************************)
(* JSON values and Python's view of them.                                  *)
(***************************************************************************)
Null == [t |-> "null"]

Str(s) == [t |-> "str", s |-> s]

Num(n) == [t |-> "num", n |-> n]

(* bool(v) of a decoded JSON scalar *)
Truthy(v) ==
    \/ v.t = "str" /\ v.s # ""
    \/ v.t = "num" /\ v.n # Big(0, 0)

EmptyDict == [k \in {} |-> Null]

(* a decoded JSON document: an object (dict) or something else *)
Obj(d) == [type |-> "object", rec |-> d]

NonObj(type, truthy) == [type |-> type, truthy |-> truthy]

(* None, as returned by _load_creds on failure *)
None == NonObj("none", FALSE)

(* bool(doc): an empty dict, an empty list, 0, "" and None are false *)
DocTruthy(doc) ==
    IF doc.type = "object" THEN DOMAIN doc.rec # {} ELSE doc.truthy

(* dict.get(key) *)
Get(d, key) == IF key \in DOMAIN d THEN d[key] ELSE Null

(* an update that replaces the record by the other one *)
Update_Replace(d, other) == other

(* dict.update(other), as a value *)
Update(d, other) ==
    [k \in (DOMAIN d) \cup (DOMAIN other) |->
        IF k \in DOMAIN other THEN other[k] ELSE d[k]]

(* d[key] = v, as a value *)
SetKey(d, key, v) ==
    [k \in (DOMAIN d) \cup {key} |-> IF k = key THEN v ELSE d[k]]

(***************************************************************************)
(* Exceptions and results of a call.                                       *)
(***************************************************************************)
NoResult == [kind |-> "none"]

Return(v) == [kind |-> "return", value |-> v]

Raise(exc, status_code) == [kind |-> "raise", exc |-> exc, status_code |-> status_code]

GetAccessTokenError(status_code) == Raise("GetAccessTokenError", status_code)

RefreshTokenError(status_code) == Raise("RefreshTokenError", status_code)

(* an exception that carries no status_code *)
PyError(exc) == Raise(exc, 0)

(***************************************************************************)
(* The credential file.                                                    *)
(***************************************************************************)
Missing == [kind |-> "missing"]

Unreadable == [kind |-> "unreadable"]

Malformed == [kind |-> "malformed"]

JsonFile(doc) == [kind |-> "json", doc |-> doc]

(* the text json.dump has written so far when it stops half way *)
Truncated(doc) == [kind |-> "truncated", doc |-> doc]

(* _load_creds that catches the missing file only: the text of a file that
   does not parse reaches the caller *)
_load_creds_Narrow(f) ==
    IF f.kind = "json" THEN f.doc
    ELSE IF f.kind = "missing" THEN None
    ELSE NonObj("text", TRUE)

(* _load_creds: every failure of open or json.load yields None *)
_load_creds(f) == IF f.kind = "json" THEN f.doc ELSE None

(***************************************************************************)
(* _is_expired(expiry_date) at time now (milliseconds).  The result is     *)
(* "true", "false", or the exception the comparison raises.                *)
(*   seconds = expiry_date / 1000 if expiry_date > 10_000_000_000          *)
(*             else expiry_date                                            *)
(*   return seconds < time.time() + 60                                     *)
(* Both sides are compared in milliseconds.                                *)
(***************************************************************************)
(* _is_expired with a threshold of 1_000_000_000: today's epoch seconds
   are taken for milliseconds *)
_is_expired_LowThreshold(expiry_date, now) ==
    IF expiry_date.t = "null" THEN "false"
    ELSE IF expiry_date.t # "num" THEN "TypeError"
    ELSE LET ms == IF BigGt(expiry_date.n, Big(1000, 0))
                   THEN expiry_date.n
                   ELSE BigMul1000(expiry_date.n)
         IN  IF BigLt(ms, BigAdd(now, MarginMs)) THEN "true" ELSE "false"

(* _is_expired that compares with <= *)
_is_expired_Inclusive(expiry_date, now) ==
    IF expiry_date.t = "null" THEN "false"
    ELSE IF expiry_date.t # "num" THEN "TypeError"
    ELSE LET ms == IF BigGt(expiry_date.n, MsThreshold)
                   THEN expiry_date.n
                   ELSE BigMul1000(expiry_date.n)
         IN  IF ~BigLt(BigAdd(now, MarginMs), ms) THEN "true" ELSE "false"

_is_expired(expiry_date, now) ==
    IF expiry_date.t = "null" THEN "false"
    ELSE IF expiry_date.t # "num" THEN "TypeError"
    ELSE LET ms == IF BigGt(expiry_date.n, MsThreshold)
                   THEN expiry_date.n
                   ELSE BigMul1000(expiry_date.n)
         IN  IF BigLt(ms, BigAdd(now, MarginMs)) THEN "true" ELSE "false"

(***************************************************************************)
(* get_access_token up to the call of _refresh_access_token: what the call *)
(* does with the loaded creds at time now.  Either a result, or            *)
(* [kind |-> "refresh"] with the refresh_token to use.                     *)
(***************************************************************************)
NeedRefresh(refresh_token) == [kind |-> "refresh", refresh_token |-> refresh_token]

(* get_access_token without the early return of a stored, unexpired token *)
get_access_token_NoCache(creds, now) ==
    IF ~DocTruthy(creds) THEN GetAccessTokenError(401)
    ELSE IF creds.type # "object" THEN PyError("AttributeError")
    ELSE LET refresh_token == Get(creds.rec, "refresh_token")
         IN  IF ~Truthy(refresh_token) THEN GetAccessTokenError(401)
             ELSE NeedRefresh(refresh_token)

(* get_access_token that asks whether the refresh_token key is there, not
   whether its value is non-empty *)
get_access_token_KeyOnly(creds, now) ==
    IF ~DocTruthy(creds) THEN GetAccessTokenError(401)
    ELSE IF creds.type # "object" THEN PyError("AttributeError")
    ELSE LET access_token == Get(creds.rec, "access_token")
             expiry_date == Get(creds.rec, "expiry_date")
             expired == IF Truthy(access_token)
                        THEN _is_expired(expiry_date, now)
                        ELSE "not evaluated"
         IN  IF expired = "TypeError" THEN PyError("TypeError")
             ELSE IF expired = "false" THEN Return(access_token)
             ELSE IF "refresh_token" \notin DOMAIN creds.rec THEN GetAccessTokenError(401)
             ELSE NeedRefresh(creds.rec["refresh_token"])

get_access_token(creds, now) ==
    IF ~DocTruthy(creds) THEN GetAccessTokenError(401)
    ELSE IF creds.type # "object" THEN PyError("AttributeError")
    ELSE LET access_token == Get(creds.rec, "access_token")
             expiry_date == Get(creds.rec, "expiry_date")
             expired == IF Truthy(access_token)
                        THEN _is_expired(expiry_date, now)
                        ELSE "not evaluated"
             refresh_token == Get(creds.rec, "refresh_token")
         IN  IF expired = "TypeError" THEN PyError("TypeError")
             ELSE IF expired = "false" THEN Return(access_token)
             ELSE IF ~Truthy(refresh_token) THEN GetAccessTokenError(401)
             ELSE NeedRefresh(refresh_token)

(***************************************************************************)
(* The token endpoint's answer to httpx.post.                              *)
(***************************************************************************)
TransportError == [kind |-> "transport_error"]

HttpJson(status_code, doc) ==
    [kind |-> "http", status_code |-> status_code, body |-> "json", doc |-> doc]

HttpUndecodable(status_code) ==
    [kind |-> "http", status_code |-> status_code, body |-> "undecodable"]

(* Response.is_success *)
IsSuccess(status_code) == 200 <= status_code /\ status_code <= 299

(***************************************************************************)
(* The try block of _refresh_access_token up to the access_token check:    *)
(* httpx.post, raise_for_status, resp.json(), payload.get("access_token"). *)
(* Either the exception raised inside the try block, or                    *)
(* [kind |-> "payload"] with the decoded payload.                          *)
(***************************************************************************)
Payload(payload) == [kind |-> "payload", payload |-> payload]

(* the try block without the check of access_token *)
refresh_request_Unchecked(resp) ==
    IF resp.kind = "transport_error" THEN PyError("TransportError")
    ELSE IF ~IsSuccess(resp.status_code) THEN Raise("HTTPStatusError", resp.status_code)
    ELSE IF resp.body # "json" THEN PyError("JSONDecodeError")
    ELSE IF resp.doc.type # "object" THEN PyError("AttributeError")
    ELSE Payload(resp.doc.rec)

refresh_request(resp) ==
    IF resp.kind = "transport_error" THEN PyError("TransportError")
    ELSE IF ~IsSuccess(resp.status_code) THEN Raise("HTTPStatusError", resp.status_code)
    ELSE IF resp.body # "json" THEN PyError("JSONDecodeError")
    ELSE IF resp.doc.type # "object" THEN PyError("AttributeError")
    ELSE IF ~Truthy(Get(resp.doc.rec, "access_token")) THEN RefreshTokenError(401)
    ELSE Payload(resp.doc.rec)

(***************************************************************************)
(* The except clauses of _refresh_access_token, applied to an exception    *)
(* raised inside its try block:                                            *)
(*   except httpx.HTTPStatusError as e: RefreshTokenError(e.response.status_code) *)
(*   except Exception as e:             RefreshTokenError(500)             *)
(* RefreshTokenError is an Exception, so the second clause also catches    *)
(* the one the try block raises itself.                                    *)
(***************************************************************************)
(* the except clauses with the HTTPStatusError clause left out *)
refresh_except_Generic(e) == RefreshTokenError(500)

refresh_except(e) ==
    IF e.exc = "HTTPStatusError" THEN RefreshTokenError(e.status_code)
    ELSE RefreshTokenError(500)

(***************************************************************************)
(* int(payload["expires_in"]): the number, or the exception.               *)
(***************************************************************************)
int(v) ==
    IF v.t = "num" THEN [ok |-> TRUE, n |-> v.n]
    ELSE IF v.t = "null" THEN [ok |-> FALSE, exc |-> "TypeError"]
    ELSE [ok |-> FALSE, exc |-> "ValueError"]

(***************************************************************************)
(* The merge of _refresh_access_token:                                     *)
(*   updated_creds = self._load_creds() or {}                              *)
(*   updated_creds.update(payload)                                         *)
(*   if "refresh_token" not in updated_creds: ... = refresh_token          *)
(*   if "expiry_date" not in updated_creds and "expires_in" in payload:    *)
(*       ... = (time.time() + int(payload["expires_in"])) * 1000           *)
(* Either the exception raised, or [kind |-> "creds"] with updated_creds.  *)
(***************************************************************************)
Creds(updated_creds) == [kind |-> "creds", updated_creds |-> updated_creds]

ReloadBase(loaded) == IF DocTruthy(loaded) THEN loaded ELSE Obj(EmptyDict)

(* the merge without the retained-refresh-token rule *)
KeepRefreshToken_Dropped(d, refresh_token) == d

KeepRefreshToken(d, refresh_token) ==
    IF "refresh_token" \notin DOMAIN d
    THEN SetKey(d, "refresh_token", refresh_token)
    ELSE d

NeedsExpiry(d, payload) ==
    "expiry_date" \notin DOMAIN d /\ "expires_in" \in DOMAIN payload

merge_creds(loaded, payload, refresh_token, now) ==
    LET base == ReloadBase(loaded)
    IN  IF base.type # "object" THEN PyError("AttributeError")
        ELSE LET merged == Update(base.rec, payload)
                 kept == KeepRefreshToken(merged, refresh_token)
             IN  IF NeedsExpiry(kept, payload)
                 THEN LET secs == int(payload["expires_in"])
                      IN  IF ~secs.ok THEN PyError(secs.exc)
                          ELSE Creds(SetKey(kept, "expiry_date",
                                        Num(BigAdd(now, BigMul1000(secs.n)))))
                 ELSE Creds(kept)

(***************************************************************************)
(* get_api_base.  The Qwen authenticator reads resource_url from the file, *)
(* the Gemini authenticator returns its configured api_base.               *)
(***************************************************************************)
DefaultApiBase == Str("default_api_base")

get_api_base(provider, creds) ==
    IF provider = "gemini" THEN Return(DefaultApiBase)
    ELSE IF ~DocTruthy(creds) THEN Return(DefaultApiBase)
    ELSE IF creds.type # "object" THEN PyError("AttributeError")
    ELSE IF Truthy(Get(creds.rec, "resource_url"))
         THEN Return(Get(creds.rec, "resource_url"))
         ELSE Return(DefaultApiBase)

(***************************************************************************)
(* Bounds and the values the model draws from.                             *)
(***************************************************************************)
NumCallers == 2

(* how many calls the callers start, all together *)
MaxCalls == 2

MaxTicks == 1

(* how often something outside this program rewrites the credential file *)
MaxExternal == 1

Callers == 1..NumCallers

Providers == {"gemini", "qwen"}

(* the clock at the start, 1_730_000_000_000 ms, and the step of Tick *)
T0 == Big(1730000, 0)

TickMs == Big(0, 90000)

PastMs == Big(1729999, 900000)

SoonMs == Big(1730000, 120000)

SoonSeconds == Big(1730, 120)

FarMs == Big(1730007, 200000)

Rec1(k1, v1) == SetKey(EmptyDict, k1, v1)

Rec2(k1, v1, k2, v2) == SetKey(Rec1(k1, v1), k2, v2)

Rec3(k1, v1, k2, v2, k3, v3) == SetKey(Rec2(k1, v1, k2, v2), k3, v3)

Rec4(k1, v1, k2, v2, k3, v3, k4, v4) == SetKey(Rec3(k1, v1, k2, v2, k3, v3), k4, v4)

Rec5(k1, v1, k2, v2, k3, v3, k4, v4, k5, v5) ==
    SetKey(Rec4(k1, v1, k2, v2, k3, v3, k4, v4), k5, v5)

(* the credential files the external login tool, or anything else, left *)
InitialRecords ==
    { Rec5("access_token", Str("old"), "expiry_date", Num(PastMs),
           "refresh_token", Str("r1"), "scope", Str("s"), "resource_url", Str("")),
      Rec4("access_token", Str("old"), "expiry_date", Num(SoonMs),
           "refresh_token", Str("r1"), "resource_url", Str("url")),
      Rec3("access_token", Str("old"), "expiry_date", Num(SoonSeconds),
           "refresh_token", Str("r1")),
      Rec3("access_token", Str("old"), "expiry_date", Str("soon"),
           "refresh_token", Str("r1")),
      Rec3("access_token", Str(""), "expiry_date", Num(PastMs),
           "refresh_token", Str("")),
      Rec2("access_token", Str("old"), "refresh_token", Str("r1")),
      Rec2("access_token", Str(""), "refresh_token", Str("r1")),
      Rec2("access_token", Str("old"), "expiry_date", Num(PastMs)),
      Rec1("refresh_token", Str("r1")),
      EmptyDict }

InitialFiles ==
    {Missing, Unreadable, Malformed,
     JsonFile(NonObj("list", TRUE)), JsonFile(NonObj("list", FALSE))}
    \cup {JsonFile(Obj(d)) : d \in InitialRecords}

(* what the login tool, or its user, may leave in place of the file meanwhile:
   a logout removes it *)
ExternalFiles == {Missing}

(* the access_token the token endpoint issues to caller p in p's n-th call *)
TokenNames ==
    << <<"new11", "new12", "new13", "new14">>,
       <<"new21", "new22", "new23", "new24">>,
       <<"new31", "new32", "new33", "new34">>,
       <<"new41", "new42", "new43", "new44">> >>

Token(p, n) == Str(TokenNames[p][n])

(* what the token endpoint may answer to the request of caller p's n-th call *)
Responses(p, n) ==
    { TransportError,
      HttpUndecodable(400),
      HttpUndecodable(200),
      HttpJson(200, Obj(EmptyDict)),
      HttpJson(200, Obj(Rec2("access_token", Str(""), "expires_in", Num(Big(0, 3600))))),
      HttpJson(200, Obj(Rec1("access_token", Token(p, n)))),
      HttpJson(200, Obj(Rec2("access_token", Token(p, n),
                             "expires_in", Num(Big(0, 3600))))),
      HttpJson(200, Obj(Rec2("access_token", Token(p, n), "expires_in", Str("abc")))),
      HttpJson(200, Obj(Rec3("access_token", Token(p, n), "expires_in", Num(Big(0, 3600)),
                             "refresh_token", Str("r2")))),
      HttpJson(201, Obj(Rec3("access_token", Token(p, n), "expiry_date", Num(FarMs),
                             "refresh_token", Str("")))) }

(***************************************************************************)
(* State.                                                                  *)
(***************************************************************************)
VARIABLES
    provider,   \* which authenticator the callers run
    file,       \* the content of the credential file at token_path
    tmpfiles,   \* the temporary files in the credential directory
    now,        \* time.time(), in milliseconds
    ticks,      \* how often the clock has advanced
    calls,      \* how many calls the callers have started
    caller,     \* each caller's position and local variables
    outside,    \* the file contents that did not come from _save_creds
    external,   \* how often the file was rewritten from outside
    handed      \* the records passed to _save_creds so far

vars == <<provider, file, tmpfiles, now, ticks, calls, caller, outside, external, handed>>

(* a caller between two calls, before its first call *)
Fresh ==
    [pc |-> "idle", op |-> "none", n |-> 0, sent |-> 0, result |-> NoResult]

Init ==
    /\ provider \in Providers
    /\ file \in InitialFiles
    /\ tmpfiles = {}
    /\ now = T0
    /\ ticks = 0
    /\ calls = 0
    /\ caller = [p \in Callers |-> Fresh]
    /\ outside = {file}
    /\ external = 0
    /\ handed = {}

(* the caller p ends its call with result r *)
Finish(c, r) == [c EXCEPT !.pc = "idle", !.result = r]

(* a new call of operation op by a caller whose locals were c *)
Begin(c, op) ==
    [pc |-> "idle", op |-> op, n |-> c.n + 1, sent |-> 0, result |-> NoResult]

CanCall(p) == caller[p].pc = "idle" /\ calls < MaxCalls

(* the locals c with the fields of more set *)
With(c, more) == more @@ c

(***************************************************************************)
(* get_api_base(): one step.  Only the Qwen authenticator loads the file.  *)
(***************************************************************************)
GetApiBase(p) ==
    /\ CanCall(p)
    /\ LET creds == _load_creds(file)
           c == Begin(caller[p], "get_api_base")
           loaded == IF provider = "qwen"
                     THEN With(c, [read |-> file, creds |-> creds])
                     ELSE c
       IN  caller' = [caller EXCEPT ![p] = Finish(loaded, get_api_base(provider, creds))]
    /\ calls' = calls + 1
    /\ UNCHANGED <<provider, file, tmpfiles, now, ticks, outside, external, handed>>

(***************************************************************************)
(* get_access_token(), first step: _load_creds and the checks up to the    *)
(* call of _refresh_access_token.                                          *)
(***************************************************************************)
GetAccessToken(p) ==
    /\ CanCall(p)
    /\ LET creds == _load_creds(file)
           c == With(Begin(caller[p], "get_access_token"),
                     [read |-> file, creds |-> creds, loaded_at |-> now])
           d == get_access_token(creds, now)
       IN  caller' = [caller EXCEPT ![p] =
                        IF d.kind = "refresh"
                        THEN With(c, [pc |-> "post", refresh_token |-> d.refresh_token])
                        ELSE Finish(c, d)]
    /\ calls' = calls + 1
    /\ UNCHANGED <<provider, file, tmpfiles, now, ticks, outside, external, handed>>

(***************************************************************************)
(* _refresh_access_token: httpx.post and the decoding of its answer.       *)
(***************************************************************************)
(* a request that is sent once more when the first one fails to connect *)
Post_Retry(p) ==
    /\ caller[p].pc = "post"
    /\ \E resp \in Responses(p, caller[p].n) :
         LET c == With(caller[p], [sent |-> caller[p].sent + 1, resp |-> resp])
             r == refresh_request(resp)
         IN  caller' = [caller EXCEPT ![p] =
                          IF r.kind = "payload"
                          THEN With(c, [pc |-> "merge", payload |-> r.payload,
                                        access_token |-> Get(r.payload, "access_token")])
                          ELSE IF resp.kind = "transport_error" /\ caller[p].sent = 0
                          THEN c
                          ELSE Finish(c, refresh_except(r))]
    /\ UNCHANGED <<provider, file, tmpfiles, now, ticks, calls, outside, external, handed>>

Post(p) ==
    /\ caller[p].pc = "post"
    /\ \E resp \in Responses(p, caller[p].n) :
         LET c == With(caller[p], [sent |-> caller[p].sent + 1, resp |-> resp])
             r == refresh_request(resp)
         IN  caller' = [caller EXCEPT ![p] =
                          IF r.kind = "payload"
                          THEN With(c, [pc |-> "merge", payload |-> r.payload,
                                        access_token |-> Get(r.payload, "access_token")])
                          ELSE Finish(c, refresh_except(r))]
    /\ UNCHANGED <<provider, file, tmpfiles, now, ticks, calls, outside, external, handed>>

(***************************************************************************)
(* _refresh_access_token: the re-load of the file and the merge.           *)
(***************************************************************************)
Merge(p) ==
    /\ caller[p].pc = "merge"
    /\ LET loaded == _load_creds(file)
           c == With(caller[p], [reloaded |-> loaded, merged_at |-> now])
           m == merge_creds(loaded, c.payload, c.refresh_token, now)
       IN  IF m.kind = "creds"
           THEN /\ caller' = [caller EXCEPT ![p] =
                                With(c, [pc |-> "save_open",
                                         updated_creds |-> m.updated_creds])]
                /\ handed' = handed \cup {m.updated_creds}
           ELSE /\ caller' = [caller EXCEPT ![p] = Finish(c, refresh_except(m))]
                /\ UNCHANGED handed
    /\ UNCHANGED <<provider, file, tmpfiles, now, ticks, calls, outside, external>>

(***************************************************************************)
(* _save_creds.  The temporary file of caller p's current call.            *)
(***************************************************************************)
TmpName(p) == <<p, caller[p].n>>

Empty == [kind |-> "empty"]

TmpFile(name, content) == [name |-> name, content |-> content]

TmpOf(p) == CHOOSE t \in tmpfiles : t.name = TmpName(p)

(* os.makedirs and tempfile.NamedTemporaryFile(delete=False, dir=dir_name) *)
SaveOpen(p) ==
    /\ caller[p].pc = "save_open"
    /\ \E outcome \in {"ok", "makedirs or NamedTemporaryFile fails"} :
         IF outcome = "ok"
         THEN /\ tmpfiles' = tmpfiles \cup {TmpFile(TmpName(p), Empty)}
              /\ caller' = [caller EXCEPT ![p] =
                              With(@, [pc |-> "save_write", tmp_path |-> FALSE])]
         ELSE /\ UNCHANGED tmpfiles
              /\ caller' = [caller EXCEPT ![p] =
                              Finish(With(@, [save |-> outcome, tmp_path |-> FALSE]),
                                     Return(@.access_token))]
    /\ UNCHANGED <<provider, file, now, ticks, calls, outside, external, handed>>

(* a save that writes into the credential file itself, without a temporary file *)
SaveWrite_InPlace(p) ==
    /\ caller[p].pc = "save_write"
    /\ LET doc == Obj(caller[p].updated_creds)
       IN  \E outcome \in {"ok", "json.dump fails"} :
             /\ file' = IF outcome = "ok" THEN JsonFile(doc) ELSE Truncated(doc)
             /\ tmpfiles' = tmpfiles \ {TmpOf(p)}
             /\ caller' = [caller EXCEPT ![p] =
                             Finish(With(@, [save |-> outcome, wrote |-> file']),
                                    Return(@.access_token))]
    /\ UNCHANGED <<provider, now, ticks, calls, outside, external, handed>>

(* json.dump(creds, tmp_f); tmp_path = tmp_f.name; the close of the with block *)
SaveWrite(p) ==
    /\ caller[p].pc = "save_write"
    /\ LET doc == Obj(caller[p].updated_creds)
           others == tmpfiles \ {TmpOf(p)}
       IN  \E outcome \in {"ok", "json.dump fails", "close fails"} :
             CASE outcome = "ok" ->
                    /\ tmpfiles' = others \cup {TmpFile(TmpName(p), JsonFile(doc))}
                    /\ caller' = [caller EXCEPT ![p] =
                                    With(@, [pc |-> "save_replace", tmp_path |-> TRUE])]
               [] outcome = "json.dump fails" ->
                    /\ tmpfiles' = others \cup {TmpFile(TmpName(p), Truncated(doc))}
                    /\ caller' = [caller EXCEPT ![p] =
                                    Finish(With(@, [save |-> outcome]),
                                           Return(@.access_token))]
               [] outcome = "close fails" ->
                    /\ tmpfiles' = others \cup {TmpFile(TmpName(p), Truncated(doc))}
                    /\ caller' = [caller EXCEPT ![p] =
                                    With(@, [pc |-> "save_cleanup", save |-> outcome,
                                             tmp_path |-> TRUE])]
    /\ UNCHANGED <<provider, file, now, ticks, calls, outside, external, handed>>

(* a rename that does not replace a target that exists *)
SaveReplace_NoOverwrite(p) ==
    /\ caller[p].pc = "save_replace"
    /\ file' = IF file.kind = "missing" THEN TmpOf(p).content ELSE file
    /\ tmpfiles' = tmpfiles \ {TmpOf(p)}
    /\ caller' = [caller EXCEPT ![p] =
                    Finish(With(@, [save |-> "ok", wrote |-> TmpOf(p).content]),
                           Return(@.access_token))]
    /\ UNCHANGED <<provider, now, ticks, calls, outside, external, handed>>

(* os.replace(tmp_path, self.token_path) *)
SaveReplace(p) ==
    /\ caller[p].pc = "save_replace"
    /\ \E outcome \in {"ok", "os.replace fails"} :
         IF outcome = "ok"
         THEN /\ file' = TmpOf(p).content
              /\ tmpfiles' = tmpfiles \ {TmpOf(p)}
              /\ caller' = [caller EXCEPT ![p] =
                              Finish(With(@, [save |-> outcome, wrote |-> TmpOf(p).content]),
                                     Return(@.access_token))]
         ELSE /\ UNCHANGED <<file, tmpfiles>>
              /\ caller' = [caller EXCEPT ![p] =
                              With(@, [pc |-> "save_cleanup", save |-> outcome])]
    /\ UNCHANGED <<provider, now, ticks, calls, outside, external, handed>>

(***************************************************************************)
(* the except clause of _save_creds with tmp_path set:                     *)
(*   if tmp_path and os.path.exists(tmp_path): os.remove(tmp_path)         *)
(* An exception of os.remove leaves _save_creds and is raised inside the   *)
(* try block of _refresh_access_token.                                     *)
(***************************************************************************)
SaveCleanup(p) ==
    /\ caller[p].pc = "save_cleanup"
    /\ \E outcome \in {"ok", "os.remove fails"} :
         IF outcome = "ok"
         THEN /\ tmpfiles' = tmpfiles \ {TmpOf(p)}
              /\ caller' = [caller EXCEPT ![p] = Finish(@, Return(@.access_token))]
         ELSE /\ UNCHANGED tmpfiles
              /\ caller' = [caller EXCEPT ![p] =
                              Finish(With(@, [cleanup |-> outcome]),
                                     refresh_except(PyError("OSError")))]
    /\ UNCHANGED <<provider, file, now, ticks, calls, outside, external, handed>>

(* time passes *)
Tick ==
    /\ ticks < MaxTicks
    /\ ticks' = ticks + 1
    /\ now' = BigAdd(now, TickMs)
    /\ UNCHANGED <<provider, file, tmpfiles, calls, caller, outside, external, handed>>

(* the external login tool, or its user, replaces or removes the file *)
External ==
    /\ external < MaxExternal
    /\ external' = external + 1
    /\ \E f \in ExternalFiles :
         /\ file' = f
         /\ outside' = outside \cup {f}
    /\ UNCHANGED <<provider, tmpfiles, now, ticks, calls, caller, handed>>

Next ==
    \/ \E p \in Callers : GetApiBase(p)
    \/ \E p \in Callers : GetAccessToken(p)
    \/ \E p \in Callers : Post(p)
    \/ \E p \in Callers : Merge(p)
    \/ \E p \in Callers : SaveOpen(p)
    \/ \E p \in Callers : SaveWrite(p)
    \/ \E p \in Callers : SaveReplace(p)
    \/ \E p \in Callers : SaveCleanup(p)
    \/ Tick

Spec == Init /\ [][Next]_vars

(* the same callers, with the credential file also rewritten from outside *)
NextExt ==
    \/ Next
    \/ External

SpecExt == Init /\ [][NextExt]_vars

(***************************************************************************)
(* _is_expired on its own: a caller applies it to an expiry_date at the    *)
(* current time, as get_access_token does with the stored one.             *)
(***************************************************************************)
(* instants in epoch seconds: early 1970, around the threshold divided by
   1000, around the clock of the model, and beyond the threshold *)
ProbeSeconds ==
    { Big(5, 0), Big(10, 0), Big(10, 1),
      Big(1729, 999900), Big(1730, 30), Big(1730, 60), Big(1730, 120),
      Big(1730, 150), Big(1730, 210),
      MsThreshold, Big(10000, 1), Big(20000, 0) }

(* the same instants in epoch milliseconds *)
ProbeMillis == {BigMul1000(t) : t \in ProbeSeconds}

(* milliseconds next to the margin *)
ProbeEdges == {Big(1730000, 59999), Big(1730000, 60001)}

ProbeValues ==
    {Null, Str("soon")}
    \cup {Num(n) : n \in ProbeSeconds \cup ProbeMillis \cup ProbeEdges}

IsExpired(p) ==
    /\ caller[p].pc = "idle"
    /\ \E expiry_date \in ProbeValues :
         LET r == _is_expired(expiry_date, now)
         IN  caller' = [caller EXCEPT ![p] =
                          [pc |-> "idle", op |-> "_is_expired", n |-> 0, sent |-> 0,
                           expiry_date |-> expiry_date, at |-> now,
                           result |-> IF r = "TypeError" THEN PyError(r) ELSE Return(r)]]
    /\ UNCHANGED <<provider, file, tmpfiles, now, ticks, calls, outside, external, handed>>

(* the clock when _is_expired is called *)
ProbeTimes == {T0, BigAdd(T0, TickMs)}

InitExpiry ==
    /\ provider \in Providers
    /\ file = Missing
    /\ tmpfiles = {}
    /\ now \in ProbeTimes
    /\ ticks = 0
    /\ calls = 0
    /\ caller = [p \in Callers |-> Fresh]
    /\ outside = {file}
    /\ external = 0
    /\ handed = {}

NextExpiry == \E p \in Callers : IsExpired(p)

SpecExpiry == InitExpiry /\ [][NextExpiry]_vars

(***************************************************************************)
(* Vocabulary of the properties.                                           *)
(***************************************************************************)
Has(c, field) == field \in DOMAIN c

(* c's call has ended *)
Ended(c) == c.pc = "idle" /\ c.result.kind # "none"

IsGetAccessToken(c) == c.op = "get_access_token"

(* the endpoint answered c's request 2xx with a JSON object *)
Answered2xx(c) ==
    /\ Has(c, "resp")
    /\ c.resp.kind = "http"
    /\ IsSuccess(c.resp.status_code)
    /\ c.resp.body = "json"
    /\ c.resp.doc.type = "object"

(* ... that carries an access_token *)
AnsweredToken(c) ==
    Answered2xx(c) /\ Truthy(Get(c.resp.doc.rec, "access_token"))

(* c's _save_creds replaced the credential file *)
Saved(c) == Has(c, "save") /\ c.save = "ok"

(* c's call loaded an object whose access_token is expired *)
LoadedExpired(c) ==
    /\ Has(c, "creds")
    /\ c.creds.type = "object"
    /\ Truthy(Get(c.creds.rec, "access_token"))
    /\ _is_expired(Get(c.creds.rec, "expiry_date"), c.loaded_at) = "true"

(* the temporary files of caller p's current call *)
TmpFilesOf(p) == {t \in tmpfiles : t.name = TmpName(p)}

(***************************************************************************)
(* C1.  A refresh of an expired record (it carries a past expiry_date) that *)
(* is answered with an access_token and an expires_in, and no expiry_date  *)
(* and no refresh_token, persists a record whose expiry_date is            *)
(* (now + expires_in) * 1000 and whose refresh_token is the original one.  *)
(* The code keeps the stale expiry_date: "expiry_date" is in updated_creds *)
(* after the merge with the re-loaded record, so nothing is synthesized.   *)
(***************************************************************************)
C1_Case(c) ==
    /\ IsGetAccessToken(c)
    /\ Saved(c)
    /\ LoadedExpired(c)
    /\ c.reloaded = c.creds
    /\ "expires_in" \in DOMAIN c.payload
    /\ c.payload["expires_in"].t = "num"
    /\ "expiry_date" \notin DOMAIN c.payload
    /\ "refresh_token" \notin DOMAIN c.payload

C1_SynthesizedExpiryPersisted ==
    \A p \in Callers :
        LET c == caller[p]
        IN  C1_Case(c) =>
              /\ c.wrote = JsonFile(Obj(c.updated_creds))
              /\ c.updated_creds["expiry_date"] =
                     Num(BigAdd(c.merged_at, BigMul1000(c.payload["expires_in"].n)))
              /\ c.updated_creds["refresh_token"] = c.refresh_token

(***************************************************************************)
(* C2.  When the endpoint answers 2xx and the decoded body has no, or an   *)
(* empty, access_token, the call fails with RefreshTokenError of status    *)
(* 401 and nothing is saved.  The code raises that error inside its own    *)
(* try block, where "except Exception" turns it into status 500.           *)
(***************************************************************************)
C2_MissingAccessTokenIs401 ==
    \A p \in Callers :
        LET c == caller[p]
        IN  (Ended(c) /\ Answered2xx(c) /\ ~AnsweredToken(c)) =>
              /\ c.result = RefreshTokenError(401)
              /\ ~Has(c, "updated_creds")
              /\ ~Has(c, "save")

(***************************************************************************)
(* C3.  The record a refresh hands to _save_creds always has a             *)
(* refresh_token key.  When the payload has no refresh_token key, its      *)
(* value is the re-loaded record's refresh_token, or the one the request   *)
(* was made with when the re-load yields no record or none with that key;  *)
(* when the payload has the key, its value is the payload's.  What         *)
(* _save_creds writes, and puts in place of the file, is that record.      *)
(* (The value is kept as it is, also when it is an empty string.)          *)
(***************************************************************************)
C3_Stored(c) ==
    IF c.reloaded.type = "object" /\ "refresh_token" \in DOMAIN c.reloaded.rec
    THEN c.reloaded.rec["refresh_token"]
    ELSE c.refresh_token

C3_RefreshTokenMergeLaw ==
    \A p \in Callers :
        LET c == caller[p]
        IN  Has(c, "updated_creds") =>
              /\ "refresh_token" \in DOMAIN c.updated_creds
              /\ "refresh_token" \notin DOMAIN c.payload
                    => c.updated_creds["refresh_token"] = C3_Stored(c)
              /\ "refresh_token" \in DOMAIN c.payload
                    => c.updated_creds["refresh_token"] = c.payload["refresh_token"]
              /\ c.pc = "save_replace"
                    => \A t \in TmpFilesOf(p) : t.content = JsonFile(Obj(c.updated_creds))
              /\ Saved(c) => c.wrote = JsonFile(Obj(c.updated_creds))

(* a refresh whose re-load found no file saved the request's refresh_token,
   while another one saved the refresh_token of its payload *)
C3_Witness ==
    \E p, q \in Callers :
        /\ Saved(caller[p])
        /\ caller[p].reloaded = None
        /\ "refresh_token" \notin DOMAIN caller[p].payload
        /\ caller[p].updated_creds["refresh_token"] = caller[p].refresh_token
        /\ Saved(caller[q])
        /\ "refresh_token" \in DOMAIN caller[q].payload

(***************************************************************************)
(* C4.  Whatever the interleaving of the callers' saves and loads, after   *)
(* every step the credential file holds a complete document: the content   *)
(* it had from outside, or exactly a record handed to _save_creds; so does *)
(* everything a caller has loaded.  A save that ends without replacing the *)
(* file leaves the file as it was.                                         *)
(***************************************************************************)
Complete(f) == f.kind \in {"missing", "unreadable", "malformed", "json"}

Whole(f, from, records) ==
    Complete(f) /\ (f \in from \/ \E h \in records : f = JsonFile(Obj(h)))

InSave(c) == c.pc \in {"save_open", "save_write", "save_replace", "save_cleanup"}

C4_AtomicSaves ==
    [][ /\ Whole(file', outside', handed')
        /\ \A p \in Callers :
             /\ Has(caller'[p], "read") => Whole(caller'[p].read, outside', handed')
             /\ Has(caller'[p], "reloaded") =>
                   \/ caller'[p].reloaded = None
                   \/ Whole(JsonFile(caller'[p].reloaded), outside', handed')
             /\ (InSave(caller[p]) /\ ~InSave(caller'[p]) /\ ~Saved(caller'[p]))
                   => file' = file
      ]_vars

(* two saves overlap: both callers re-loaded the same file, one has replaced
   it and the other, holding a different record, is about to *)
C4_Witness ==
    \E p, q \in Callers :
        /\ Saved(caller[p])
        /\ caller[q].pc = "save_replace"
        /\ caller[q].reloaded = caller[p].reloaded
        /\ caller[q].updated_creds # caller[p].updated_creds
        /\ file = JsonFile(Obj(caller[p].updated_creds))

(***************************************************************************)
(* C5.  A step changes the credential file only when it is the os.replace  *)
(* of a get_access_token call whose request was answered 2xx with an       *)
(* access_token, and that call then returns.  A call that fails, and a     *)
(* get_api_base call, has not written the file, and no step removes it.    *)
(***************************************************************************)
C5_FileChangesOnlyOnRefresh ==
    [][ /\ file' # file =>
             \E p \in Callers :
                 /\ IsGetAccessToken(caller[p])
                 /\ caller[p].pc = "save_replace"
                 /\ AnsweredToken(caller[p])
                 /\ Saved(caller'[p])
                 /\ caller'[p].result.kind = "return"
        /\ file.kind # "missing" => file'.kind # "missing"
        /\ \A p \in Callers :
             (caller'[p].result.kind = "raise" \/ caller'[p].op = "get_api_base")
                 => ~Saved(caller'[p])
      ]_vars

(* one call failed with the endpoint's 400 and the file is as it was; then
   a refresh replaced it *)
C5_Witness ==
    \E p, q \in Callers :
        /\ caller[p].result = RefreshTokenError(400)
        /\ Saved(caller[q])
        /\ file = caller[q].wrote
        /\ file \notin outside
        /\ caller[q].reloaded = caller[p].creds

(***************************************************************************)
(* C6.  A refresh that the endpoint answers with a non-2xx status fails    *)
(* with RefreshTokenError carrying that status; one whose network call     *)
(* fails otherwise (no connection, timeout, a 2xx body that does not       *)
(* decode) fails with RefreshTokenError of status 500.                     *)
(***************************************************************************)
C6_RefreshErrorStatus ==
    \A p \in Callers :
        LET c == caller[p]
        IN  (Has(c, "resp") /\ c.pc # "merge") =>
              /\ (c.resp.kind = "http" /\ ~IsSuccess(c.resp.status_code))
                    => (Ended(c) /\ c.result = RefreshTokenError(c.resp.status_code))
              /\ (\/ c.resp.kind = "transport_error"
                  \/ (/\ c.resp.kind = "http"
                      /\ IsSuccess(c.resp.status_code)
                      /\ c.resp.body # "json"))
                    => (Ended(c) /\ c.result = RefreshTokenError(500))

(* one refresh ended with the endpoint's 400, another with 500 after a
   transport error *)
C6_Witness ==
    \E p, q \in Callers :
        /\ Has(caller[p], "resp")
        /\ caller[p].resp = HttpUndecodable(400)
        /\ caller[p].result = RefreshTokenError(400)
        /\ Has(caller[q], "resp")
        /\ caller[q].resp = TransportError
        /\ caller[q].result = RefreshTokenError(500)

(***************************************************************************)
(* C7.  When the loaded record has a non-empty access_token that           *)
(* _is_expired reports as not expired (a record without expiry_date        *)
(* included), get_access_token returns exactly that access_token, sends no *)
(* request and writes nothing: no temporary file, no replaced file.        *)
(***************************************************************************)
LoadedValid(c) ==
    /\ IsGetAccessToken(c)
    /\ c.creds.type = "object"
    /\ Truthy(Get(c.creds.rec, "access_token"))
    /\ _is_expired(Get(c.creds.rec, "expiry_date"), c.loaded_at) = "false"

C7_ValidTokenReturned ==
    \A p \in Callers :
        LET c == caller[p]
        IN  LoadedValid(c) =>
              /\ Ended(c)
              /\ c.result = Return(c.creds.rec["access_token"])
              /\ c.sent = 0
              /\ ~Has(c, "updated_creds")
              /\ ~Has(c, "save")
              /\ TmpFilesOf(p) = {}

(* a stored token whose expiry_date is more than the margin ahead was
   returned, while the file holds that record *)
C7_Witness ==
    \E p \in Callers :
        /\ LoadedValid(caller[p])
        /\ "expiry_date" \in DOMAIN caller[p].creds.rec
        /\ caller[p].result = Return(Str("old"))
        /\ file = JsonFile(caller[p].creds)

(***************************************************************************)
(* C8.  When the loaded record's access_token is absent, empty or expired  *)
(* and its refresh_token is absent or empty, get_access_token fails with   *)
(* GetAccessTokenError of status 401 and sends no request.                 *)
(***************************************************************************)
LoadedNoRefresh(c) ==
    /\ IsGetAccessToken(c)
    /\ c.creds.type = "object"
    /\ DocTruthy(c.creds)
    /\ \/ ~Truthy(Get(c.creds.rec, "access_token"))
       \/ _is_expired(Get(c.creds.rec, "expiry_date"), c.loaded_at) = "true"
    /\ ~Truthy(Get(c.creds.rec, "refresh_token"))

C8_NoRefreshTokenIs401 ==
    \A p \in Callers :
        LET c == caller[p]
        IN  LoadedNoRefresh(c) =>
              /\ Ended(c)
              /\ c.result = GetAccessTokenError(401)
              /\ c.sent = 0
              /\ ~Has(c, "resp")

(* a call on an expired token without a refresh_token ended in 401 *)
C8_Witness ==
    \E p \in Callers :
        /\ LoadedNoRefresh(caller[p])
        /\ LoadedExpired(caller[p])
        /\ "refresh_token" \notin DOMAIN caller[p].creds.rec
        /\ caller[p].result = GetAccessTokenError(401)

(***************************************************************************)
(* C9.  When the credential file is missing, unreadable or not JSON,       *)
(* _load_creds yields None and get_access_token fails with                 *)
(* GetAccessTokenError of status 401 without sending a request.            *)
(***************************************************************************)
ReadNothing(c) ==
    /\ IsGetAccessToken(c)
    /\ c.read.kind \in {"missing", "unreadable", "malformed"}

C9_NoCredentialsIs401 ==
    \A p \in Callers :
        LET c == caller[p]
        IN  ReadNothing(c) =>
              /\ c.creds = None
              /\ Ended(c)
              /\ c.result = GetAccessTokenError(401)
              /\ c.sent = 0
              /\ ~Has(c, "resp")

(* a call on a file that does not parse ended in 401 *)
C9_Witness ==
    \E p \in Callers :
        /\ ReadNothing(caller[p])
        /\ caller[p].read = Malformed
        /\ caller[p].result = GetAccessTokenError(401)

(***************************************************************************)
(* C10.  When the endpoint answered 2xx with an access_token and the merge *)
(* was handed to _save_creds, but the save did not replace the file        *)
(* (makedirs, the temporary file, the write, the rename or the cleanup     *)
(* after a failure failed), the call still returns the new access_token.   *)
(* The code fails with RefreshTokenError 500 when os.remove raises in the  *)
(* except clause of _save_creds: that exception leaves _save_creds.        *)
(***************************************************************************)
SaveFailed(c) ==
    /\ IsGetAccessToken(c)
    /\ Ended(c)
    /\ Has(c, "updated_creds")
    /\ ~Saved(c)

C10_FailedSaveStillReturns ==
    \A p \in Callers :
        LET c == caller[p]
        IN  SaveFailed(c) => c.result = Return(c.access_token)

(***************************************************************************)
(* C11.  After a _save_creds call that failed while the record was written *)
(* into the temporary file, or while that file was renamed over the        *)
(* target, no temporary file of that call remains in the directory.        *)
(* The code sets tmp_path only after json.dump: when json.dump raises,     *)
(* tmp_path is still None and the except clause removes nothing.           *)
(***************************************************************************)
SaveFailedWritingOrRenaming(c) ==
    /\ IsGetAccessToken(c)
    /\ Ended(c)
    /\ Has(c, "save")
    /\ c.save \in {"json.dump fails", "close fails", "os.replace fails"}

C11_NoTempFileAfterFailedSave ==
    \A p \in Callers :
        SaveFailedWritingOrRenaming(caller[p]) => TmpFilesOf(p) = {}

(***************************************************************************)
(* C12.  The record a refresh hands to _save_creds has every key of the    *)
(* payload with the payload's value, and every key of the re-loaded record *)
(* that the payload lacks with the re-loaded value; beyond those keys it   *)
(* has at most refresh_token and expiry_date.  A save that replaces the    *)
(* file puts exactly that record in place.                                 *)
(***************************************************************************)
C12_Reloaded(c) == IF c.reloaded.type = "object" THEN c.reloaded.rec ELSE EmptyDict

C12_MergePreservesKeys ==
    \A p \in Callers :
        LET c == caller[p]
        IN  Has(c, "updated_creds") =>
              LET old == C12_Reloaded(c)
                  new == c.updated_creds
              IN  /\ \A k \in DOMAIN c.payload : k \in DOMAIN new /\ new[k] = c.payload[k]
                  /\ \A k \in (DOMAIN old) \ (DOMAIN c.payload) :
                         k \in DOMAIN new /\ new[k] = old[k]
                  /\ (DOMAIN new) \ ((DOMAIN old) \cup (DOMAIN c.payload))
                         \subseteq {"refresh_token", "expiry_date"}
                  /\ Saved(c) => c.wrote = JsonFile(Obj(new))

(* a saved refresh kept the re-loaded scope and resource_url, which the
   payload lacks, and took the payload's refresh_token over the stored one *)
C12_Witness ==
    \E p \in Callers :
        LET c == caller[p]
        IN  /\ Has(c, "updated_creds")
            /\ Saved(c)
            /\ file = c.wrote
            /\ c.reloaded.type = "object"
            /\ "scope" \in DOMAIN c.reloaded.rec
            /\ "scope" \notin DOMAIN c.payload
            /\ c.updated_creds["scope"] = c.reloaded.rec["scope"]
            /\ "refresh_token" \in DOMAIN c.payload
            /\ c.updated_creds["refresh_token"] # c.reloaded.rec["refresh_token"]

(***************************************************************************)
(* C13.  When two callers loaded the same expired record and both sent a   *)
(* refresh request, each of them whose request was answered 2xx with an    *)
(* access_token returns the access_token of its own response, whatever     *)
(* became of its save.                                                     *)
(* The code fails with RefreshTokenError 500 when the save fails and the   *)
(* os.remove of its cleanup fails too (see C10).                           *)
(***************************************************************************)
C13_BothRefresh(c, d) ==
    /\ IsGetAccessToken(c)
    /\ IsGetAccessToken(d)
    /\ LoadedExpired(c)
    /\ LoadedExpired(d)
    /\ c.creds = d.creds
    /\ c.sent = 1
    /\ d.sent = 1

C13_EachReturnsOwnToken ==
    \A p, q \in Callers :
        LET c == caller[p]
        IN  (p # q /\ C13_BothRefresh(c, caller[q]) /\ Ended(c) /\ AnsweredToken(c))
               => c.result = Return(c.resp.doc.rec["access_token"])

(***************************************************************************)
(* C14.  The credential file always holds the merged record of the refresh *)
(* whose rename happened last: the rename of a refresh puts exactly its    *)
(* merged record in place, with the access_token of its own response, and  *)
(* no other step changes the file.  So when concurrent refreshes have all  *)
(* finished, the file is the record of the last rename, in whatever order  *)
(* the responses came.                                                     *)
(***************************************************************************)
Renames(p) == caller[p].pc = "save_replace" /\ Saved(caller'[p])

C14_LastRenameWins ==
    [][ /\ \A p \in Callers :
             Renames(p) =>
                 /\ file' = JsonFile(Obj(caller[p].updated_creds))
                 /\ file'.doc.rec["access_token"] = caller[p].resp.doc.rec["access_token"]
        /\ (\A p \in Callers : ~Renames(p)) => file' = file
      ]_vars

(* two refreshes that re-loaded the same file have both renamed; the file
   holds the record and the access_token of one, not of the other *)
C14_Witness ==
    \E p, q \in Callers :
        /\ Saved(caller[p])
        /\ Saved(caller[q])
        /\ caller[p].reloaded = caller[q].reloaded
        /\ file = JsonFile(Obj(caller[q].updated_creds))
        /\ file.doc.rec["access_token"] = caller[q].resp.doc.rec["access_token"]
        /\ file.doc.rec["access_token"] # caller[p].resp.doc.rec["access_token"]
        /\ caller[p].wrote = JsonFile(Obj(caller[p].updated_creds))

(***************************************************************************)
(* C15.  _is_expired gives the same result for an instant t in seconds and *)
(* for the same instant t * 1000 in milliseconds, at the same current      *)
(* time, for every t.                                                      *)
(* This fails outside 10_000_000 < t <= 10_000_000_000: for smaller t the  *)
(* value t * 1000 does not exceed the threshold and is read as seconds,    *)
(* for larger t the value t itself is read as milliseconds.                *)
(***************************************************************************)
IsProbe(c) == c.op = "_is_expired"

(* c was asked about an instant in seconds, d about the same in milliseconds *)
SameInstant(c, d) ==
    /\ IsProbe(c)
    /\ IsProbe(d)
    /\ c.at = d.at
    /\ c.expiry_date.t = "num"
    /\ c.expiry_date.n \in ProbeSeconds
    /\ d.expiry_date = Num(BigMul1000(c.expiry_date.n))

C15_UnitAgnostic ==
    \A p, q \in Callers :
        SameInstant(caller[p], caller[q]) => caller[p].result = caller[q].result

(* 10_000_000 < t <= 10_000_000_000 *)
InSecondsRange(t) == BigGt(t, Big(10, 0)) /\ ~BigGt(t, MsThreshold)

C15_UnitAgnosticInRange ==
    \A p, q \in Callers :
        (SameInstant(caller[p], caller[q]) /\ InSecondsRange(caller[p].expiry_date.n))
            => /\ caller[p].result = caller[q].result
               /\ caller[p].result.kind = "return"

(* an instant 30 seconds ahead is expired in both units, at the same time *)
C15_Witness ==
    \E p, q \in Callers :
        /\ SameInstant(caller[p], caller[q])
        /\ InSecondsRange(caller[p].expiry_date.n)
        /\ caller[q].expiry_date.n = BigAdd(caller[q].at, Big(0, 30000))
        /\ caller[p].result = Return("true")
        /\ caller[q].result = Return("true")

(***************************************************************************)
(* C16.  _is_expired returns false for an absent expiry_date (None).  For  *)
(* a number it returns true exactly when the instant, normalized (a value  *)
(* above 10_000_000_000 is milliseconds, any other value seconds), is      *)
(* strictly before the current time plus 60 seconds: 30 seconds ahead is   *)
(* expired, 120 seconds ahead is not, exactly 60 seconds ahead is not.     *)
(***************************************************************************)
(* the instant a stored number stands for, in milliseconds *)
Due(n) == IF BigGt(n, MsThreshold) THEN n ELSE BigMul1000(n)

Ahead(c, ms) == Due(c.expiry_date.n) = BigAdd(c.at, Big(0, ms))

C16_MarginBoundary ==
    \A p \in Callers :
        LET c == caller[p]
        IN  IsProbe(c) =>
              /\ c.expiry_date.t = "null" => c.result = Return("false")
              /\ c.expiry_date.t = "num" =>
                    /\ c.result \in {Return("true"), Return("false")}
                    /\ c.result = Return("true")
                          <=> BigLt(Due(c.expiry_date.n), BigAdd(c.at, Big(0, 60000)))
                    /\ Ahead(c, 30000) => c.result = Return("true")
                    /\ Ahead(c, 120000) => c.result = Return("false")
                    /\ Ahead(c, 60000) => c.result = Return("false")

(* exactly 60 seconds ahead, given in seconds, is not expired; 30 seconds
   ahead, given in milliseconds, is *)
C16_Witness ==
    \E p, q \in Callers :
        /\ IsProbe(caller[p])
        /\ IsProbe(caller[q])
        /\ caller[p].expiry_date.t = "num"
        /\ caller[q].expiry_date.t = "num"
        /\ ~BigGt(caller[p].expiry_date.n, MsThreshold)
        /\ Ahead(caller[p], 60000)
        /\ caller[p].result = Return("false")
        /\ BigGt(caller[q].expiry_date.n, MsThreshold)
        /\ Ahead(caller[q], 30000)
        /\ caller[q].result = Return("true")

(***************************************************************************)
(* C17.  get_api_base sends no request and writes nothing.  The Qwen       *)
(* authenticator returns the stored record's resource_url when the record  *)
(* loads and the field is non-empty, and its default in every other case;  *)
(* the Gemini authenticator returns its default without reading the file.  *)
(* The Qwen code calls creds.get on whatever json.load returned: a file    *)
(* holding a non-empty JSON value that is not an object raises             *)
(* AttributeError.                                                         *)
(***************************************************************************)
C17_Expected(c) ==
    IF /\ c.read.kind = "json"
       /\ c.read.doc.type = "object"
       /\ Truthy(Get(c.read.doc.rec, "resource_url"))
    THEN Return(c.read.doc.rec["resource_url"])
    ELSE Return(DefaultApiBase)

C17_ApiBasePerProvider ==
    \A p \in Callers :
        LET c == caller[p]
        IN  (c.op = "get_api_base" /\ c.pc = "idle") =>
              /\ c.sent = 0
              /\ ~Has(c, "resp")
              /\ ~Has(c, "save")
              /\ TmpFilesOf(p) = {}
              /\ provider = "gemini" => (~Has(c, "read") /\ c.result = Return(DefaultApiBase))
              /\ provider = "qwen" => c.result = C17_Expected(c)

(***************************************************************************)
(* C18.  A get_access_token call sends at most one request to the token    *)
(* endpoint, also when that request fails; and it sends one only when the  *)
(* record loaded, its access_token is absent (or empty) or expired, and    *)
(* its refresh_token is non-empty.  A failed request ends the call.        *)
(***************************************************************************)
C18_AtMostOneRequest ==
    \A p \in Callers :
        LET c == caller[p]
        IN  IsGetAccessToken(c) =>
              /\ c.sent <= 1
              /\ Has(c, "resp") <=> c.sent = 1
              /\ c.sent = 1 =>
                    /\ c.read.kind = "json"
                    /\ c.creds.type = "object"
                    /\ \/ ~Truthy(Get(c.creds.rec, "access_token"))
                       \/ _is_expired(Get(c.creds.rec, "expiry_date"), c.loaded_at) = "true"
                    /\ Truthy(Get(c.creds.rec, "refresh_token"))
              /\ (c.sent = 1 /\ refresh_request(c.resp).kind # "payload") => Ended(c)

(* a request that could not connect ended the call with one request sent;
   the record had no access_token at all *)
C18_Witness ==
    \E p \in Callers :
        LET c == caller[p]
        IN  /\ IsGetAccessToken(c)
            /\ c.sent = 1
            /\ c.resp = TransportError
            /\ Ended(c)
            /\ c.result = RefreshTokenError(500)
            /\ "access_token" \notin DOMAIN c.creds.rec

(***************************************************************************)
(* C19.  After a call that refreshed and saved, with a response carrying   *)
(* access_token and an expires_in above 60 seconds, a call that loads the  *)
(* saved record before (time of the refresh + expires_in - 60 seconds)     *)
(* returns the refreshed access_token and sends no request.                *)
(* The code refreshes again when the record had an expiry_date before the  *)
(* refresh: the stale expiry_date is what was saved (see C1).              *)
(***************************************************************************)
C19_Refreshed(c) ==
    /\ IsGetAccessToken(c)
    /\ Saved(c)
    /\ AnsweredToken(c)
    /\ "expires_in" \in DOMAIN c.payload
    /\ c.payload["expires_in"].t = "num"
    /\ BigGt(c.payload["expires_in"].n, Big(0, 60))

C19_InLifetime(c, d) ==
    BigLt(BigAdd(d.loaded_at, Big(0, 60000)),
          BigAdd(c.merged_at, BigMul1000(c.payload["expires_in"].n)))

C19_NextCallUsesSavedToken ==
    \A p, q \in Callers :
        LET c == caller[p]
            d == caller[q]
        IN  (/\ p # q
             /\ C19_Refreshed(c)
             /\ IsGetAccessToken(d)
             /\ d.read = c.wrote
             /\ C19_InLifetime(c, d))
            => /\ d.sent = 0
               /\ d.pc = "idle"
               /\ d.result = Return(c.access_token)

(***************************************************************************)
(* C20.  Whatever the credential file holds and whatever the endpoint      *)
(* does, a get_access_token call that ends either returns a token or       *)
(* raises GetAccessTokenError or RefreshTokenError with a status code.     *)
(* The code lets AttributeError escape for a file holding a non-empty JSON *)
(* value that is not an object (creds.get), and TypeError for an           *)
(* expiry_date that is not a number (the comparison in _is_expired).       *)
(***************************************************************************)
Typed(r) ==
    /\ r.kind = "raise"
    /\ r.exc \in {"GetAccessTokenError", "RefreshTokenError"}
    /\ r.status_code > 0

C20_OnlyTypedErrors ==
    \A p \in Callers :
        LET c == caller[p]
        IN  (IsGetAccessToken(c) /\ Ended(c)) =>
              \/ c.result.kind = "return" /\ Truthy(c.result.value)
              \/ Typed(c.result)

====
